---- MODULE Spec2Model ----
(***************************************************************************)
(* Model of package httpclient (tamnd/httpclient): the single-request      *)
(* operations Get/Bytes/String/Reader/JSON/XML, the concurrent batch       *)
(* operation Files/Download, and the package-level functions backed by     *)
(* the default client.                                                     *)
(*                                                                         *)
(* Go slices are 0-based, TLA+ sequences 1-based: task i of the model is   *)
(* the goroutine started with index i-1, urls[i] is Go's urls[i-1].        *)
(* Every Go value is a record with a "type" field; Nil is Go's nil.        *)
(***************************************************************************)
EXTENDS Integers, Sequences, FiniteSets, TLC

\* Bounds of the model.
MaxUrls == 2    \* longest urls argument of Files
MaxFiles == 2   \* longest files argument of Files
NumObjs == 2    \* File objects the caller owns (files[i] points at one, or is nil)

\* The fields of the records that stand for Go values and for the model's
\* bookkeeping, in the order every record of the module lists them.
FieldOrder ==
    [Body |-> "string", Message |-> "string", ReadErr |-> "error", ReqURL |-> "string",
     StatusCode |-> "int", URL |-> "string", a |-> "string", body |-> "state",
     data |-> "string", err |-> "error", late |-> "bool", of |-> "string", op |-> "string",
     p |-> "[]byte", pc |-> "string", pending |-> "error", read |-> "bool",
     recv |-> "string", req |-> "[]string", res |-> "result", resp |-> "*http.Response",
     text |-> "string", type |-> "string", url |-> "string", v |-> "value",
     val |-> "value"]

Nil == [type |-> "nil"]

(***************************************************************************)
(* The network: what the transport (net/http's Client.Get) answers for     *)
(* each URL of a fixture.  A response records the status, the body, the    *)
(* URL of the request that obtained it (resp.Request.URL: the last request *)
(* of a redirect chain) and whether reading the body fails part-way.       *)
(***************************************************************************)
UA == "http://ok/a.json"
UB == "http://ok/b.xml"
UT == "http://ok/t.json"
UC == "http://ok/cut.json"
UN == "http://nf"
UM == "http://moved"
US == "http://err"
UR == "http://reset"
UD == "http://down"
UH == "http://hang"

URLS == {UA, UB, UT, UC, UN, UM, US, UR, UD}

\* The URLs the batch operation is exercised with.
BatchURLS == {UA, UB, UM, UR, UD, UH}

\* No timeout is configured: a GET to a server that never answers never returns.
Hangs(url) == url = UH

Response(status, body, requrl, readerr) ==
    [Body |-> body, ReadErr |-> readerr, ReqURL |-> requrl, StatusCode |-> status,
     type |-> "*http.Response"]

TransportErr(text) == [text |-> text, type |-> "transport error"]
ReadErr(text) == [text |-> text, type |-> "read error"]

\* c.client.Get(url), when it returns: (resp, err), exactly one of them non-nil.
Transport(url) ==
    CASE url = UA -> [err |-> Nil, resp |-> Response(200, "{\"a\":1}", UA, Nil)]
      [] url = UB -> [err |-> Nil, resp |-> Response(200, "<a>1</a>", UB, Nil)]
      [] url = UT -> [err |-> Nil, resp |-> Response(200, "{\"a\":\"x\"}", UT, Nil)]
      [] url = UC -> [err |-> Nil, resp |-> Response(200, "{\"a\":", UC, Nil)]
      [] url = UN -> [err |-> Nil, resp |-> Response(404, "not found", UN, Nil)]
      [] url = UM -> [err |-> Nil, resp |-> Response(404, "not found", UN, Nil)]
      [] url = US -> [err |-> Nil, resp |-> Response(500, "{\"a\":1}", US, Nil)]
      [] url = UR -> [err |-> Nil,
                      resp |-> Response(200, "{\"a\":1}", UR,
                                        ReadErr("connection reset by peer"))]
      [] url = UD -> [err |-> TransportErr("dial tcp: no such host"), resp |-> Nil]

\* ioutil.ReadAll(resp.Body): the bytes read and the error that stopped the read
\* (nil at end of file).  A failing read returns what was read before it.
ByteSlice(s) == [data |-> s, type |-> "[]byte"]
ReadAll(resp) ==
    IF resp.ReadErr = Nil
    THEN [err |-> Nil, p |-> ByteSlice(resp.Body)]
    ELSE [err |-> resp.ReadErr, p |-> ByteSlice("{\"a\"")]

\* json.NewDecoder(resp.Body).Decode(v): the value stored in v and the error.
\* A body that is no JSON text is a *json.SyntaxError; a JSON text cut short is
\* io.ErrUnexpectedEOF; a JSON text of the wrong shape is *json.UnmarshalTypeError.
JSONDecode(resp) ==
    IF resp.ReadErr # Nil THEN [err |-> resp.ReadErr, v |-> Nil]
    ELSE CASE resp.Body = "{\"a\":1}" ->
                [err |-> Nil, v |-> [a |-> "1", type |-> "value"]]
           [] resp.Body = "{\"a\":\"x\"}" ->
                [err |-> [text |-> "cannot unmarshal string into int",
                          type |-> "*json.UnmarshalTypeError"],
                 v |-> Nil]
           [] resp.Body = "{\"a\":" ->
                [err |-> [text |-> "unexpected EOF", type |-> "io.ErrUnexpectedEOF"],
                 v |-> Nil]
           [] OTHER ->
                [err |-> [text |-> "invalid character", type |-> "*json.SyntaxError"],
                 v |-> Nil]

\* xml.NewDecoder(resp.Body).Decode(v).
XMLDecode(resp) ==
    IF resp.ReadErr # Nil THEN [err |-> resp.ReadErr, v |-> Nil]
    ELSE IF resp.Body = "<a>1</a>"
         THEN [err |-> Nil, v |-> [a |-> "1", type |-> "value"]]
         ELSE [err |-> [text |-> "EOF", type |-> "xml error"], v |-> Nil]

(***************************************************************************)
(* Client: the error constructor and the single-request operations.        *)
(* A result is what the caller gets back (val, err) together with the      *)
(* state the call leaves the response body in ("none" when no response was *)
(* received) and whether the body was read.                                *)
(***************************************************************************)
Result(val, err, body, read) ==
    [body |-> body, err |-> err, read |-> read, val |-> val]

\* Faulty variant of Close: the Close is missing, the body stays as it was.
CloseLeak(body) == body

\* What resp.Body.Close() (deferred, or called before a return) leaves of a body.
Close(body) == IF body = "open" THEN "closed" ELSE body

\* The body of a response just received.
Open == "open"

\* fmt.Sprintf("Get %s -> %d", ...) and string concatenation: a message is the
\* sequence of its parts.
Sprintf_Get(url, status) == <<"Get ", url, " -> ", ToString(status)>>

\* Faulty variant of err: the StatusCode field is left at its zero value.
errZeroStatus(resp, message) ==
    [Message |-> IF message = <<>>
                 THEN Sprintf_Get(resp.ReqURL, resp.StatusCode)
                 ELSE message,
     StatusCode |-> 0,
     URL |-> resp.ReqURL,
     type |-> "*httpclient.Error"]

\* Client.err
err(resp, message) ==
    [Message |-> IF message = <<>>
                 THEN Sprintf_Get(resp.ReqURL, resp.StatusCode)
                 ELSE message,
     StatusCode |-> resp.StatusCode,
     URL |-> resp.ReqURL,
     type |-> "*httpclient.Error"]

\* Variant of Get that wraps a transport failure into an Error with the transport's
\* text, status 0 and the requested URL.
ClientGetWrapped(url) ==
    LET g == Transport(url) IN
    IF g.err = Nil THEN g
    ELSE [err |-> [Message |-> <<g.err.text>>, StatusCode |-> 0, URL |-> url,
                   type |-> "*httpclient.Error"],
          resp |-> Nil]

\* Client.Get
ClientGet(url) == Transport(url)

\* Client.Bytes
ClientBytes(url) ==
    LET g == ClientGet(url) IN
    IF g.err # Nil THEN Result(Nil, g.err, "none", FALSE)
    ELSE IF g.resp.StatusCode # 200
         THEN Result(Nil, err(g.resp, <<>>), Close(Open), FALSE)
         ELSE LET r == ReadAll(g.resp) IN Result(r.p, r.err, Close(Open), TRUE)

\* Client.String
ClientString(url) ==
    LET b == ClientBytes(url) IN
    IF b.err # Nil
    THEN Result([data |-> "", type |-> "string"], b.err, b.body, b.read)
    ELSE Result([data |-> b.val.data, type |-> "string"], Nil, b.body, b.read)

\* Client.Reader
ClientReader(url) ==
    LET g == ClientGet(url) IN
    IF g.err # Nil THEN Result(Nil, g.err, "none", FALSE)
    ELSE IF g.resp.StatusCode # 200
         THEN Result(Nil, err(g.resp, <<>>), Close(Open), FALSE)
         ELSE Result([of |-> g.resp.ReqURL, type |-> "io.ReadCloser"], Nil,
                     Open, FALSE)

\* Faulty variant of JSON: a syntax error is returned as the decoder reports it.
ClientJSONRaw(url) ==
    LET g == ClientGet(url) IN
    IF g.err # Nil THEN Result(Nil, g.err, "none", FALSE)
    ELSE IF g.resp.StatusCode # 200
         THEN Result(Nil, err(g.resp, <<>>), Close(Open), FALSE)
         ELSE LET d == JSONDecode(g.resp) IN Result(d.v, d.err, Close(Open), TRUE)

\* Client.JSON: val is what the call stored in the target v.
ClientJSON(url) ==
    LET g == ClientGet(url) IN
    IF g.err # Nil THEN Result(Nil, g.err, "none", FALSE)
    ELSE IF g.resp.StatusCode # 200
         THEN Result(Nil, err(g.resp, <<>>), Close(Open), FALSE)
         ELSE LET d == JSONDecode(g.resp) IN
              IF d.err.type = "*json.SyntaxError"
              THEN Result(d.v, err(g.resp, <<"JSON syntax error at ", url>>),
                          Close(Open), TRUE)
              ELSE Result(d.v, d.err, Close(Open), TRUE)

\* Client.XML
ClientXML(url) ==
    LET g == ClientGet(url) IN
    IF g.err # Nil THEN Result(Nil, g.err, "none", FALSE)
    ELSE IF g.resp.StatusCode # 200
         THEN Result(Nil, err(g.resp, <<>>), Close(Open), FALSE)
         ELSE LET d == XMLDecode(g.resp) IN Result(d.v, d.err, Close(Open), TRUE)

\* The package-level functions, backed by the default client.
PkgGet(url) == ClientGet(url)
PkgBytes(url) == ClientBytes(url)
PkgString(url) == ClientString(url)
PkgReader(url) == ClientReader(url)
PkgJSON(url) == ClientJSON(url)
PkgXML(url) == ClientJSON(url)

(***************************************************************************)
(* State.                                                                  *)
(***************************************************************************)
VARIABLES
    pc,        \* the caller: "idle", "run" (inside Files), "returned"
    ret,       \* the call in progress or last completed, and what it returned
    urls,      \* Files' urls argument
    files,     \* Files' files argument: files[i] is a File object (1..NumObjs) or 0 (nil)
    heap,      \* heap[o]: the Data field of File object o
    ch,        \* the completion channel's buffer
    launched,  \* iterations of the launch loop done
    drained,   \* iterations of the drain loop begun: signals received from ch
    task,      \* task[i]: the goroutine of index i
    crashed    \* a goroutine panicked: the process is gone

vars == <<pc, ret, urls, files, heap, ch, launched, drained, task, crashed>>

Objs == 1..NumObjs

RECURSIVE SeqsUpTo(_, _)
SeqsUpTo(S, n) ==
    IF n = 0 THEN {<<>>}
    ELSE LET shorter == SeqsUpTo(S, n - 1) IN
         shorter \cup {Append(q, x) : q \in {t \in shorter : Len(t) = n - 1}, x \in S}

NoCall == [op |-> "none", recv |-> "none", res |-> Result(Nil, Nil, "none", FALSE), url |-> ""]

Init ==
    /\ pc = "idle"
    /\ ret = NoCall
    /\ urls = <<>>
    /\ files = <<>>
    /\ heap = [o \in Objs |-> Nil]
    /\ ch = <<>>
    /\ launched = 0
    /\ drained = 0
    /\ task = <<>>
    /\ crashed = FALSE

Recv == {"Client", "package"}

\* A single-request call: the whole call is one step of the caller.
Single(op, recv, url, res) ==
    /\ pc = "idle"
    /\ ~crashed
    /\ ret' = [op |-> op, recv |-> recv, res |-> res, url |-> url]
    /\ UNCHANGED <<pc, urls, files, heap, ch, launched, drained, task, crashed>>

\* What a caller of Get holds: the response with its body open, or the error.
GetResult(g) == Result(g.resp, g.err, IF g.resp = Nil THEN "none" ELSE Open, FALSE)

CallGet ==
    \E recv \in Recv, url \in URLS :
        Single("Get", recv, url,
               GetResult(IF recv = "Client" THEN ClientGet(url) ELSE PkgGet(url)))

CallBytes ==
    \E recv \in Recv, url \in URLS :
        Single("Bytes", recv, url,
               IF recv = "Client" THEN ClientBytes(url) ELSE PkgBytes(url))

CallString ==
    \E recv \in Recv, url \in URLS :
        Single("String", recv, url,
               IF recv = "Client" THEN ClientString(url) ELSE PkgString(url))

CallReader ==
    \E recv \in Recv, url \in URLS :
        Single("Reader", recv, url,
               IF recv = "Client" THEN ClientReader(url) ELSE PkgReader(url))

CallJSON ==
    \E recv \in Recv, url \in URLS :
        Single("JSON", recv, url,
               IF recv = "Client" THEN ClientJSON(url) ELSE PkgJSON(url))

CallXML ==
    \E recv \in Recv, url \in URLS :
        Single("XML", recv, url,
               IF recv = "Client" THEN ClientXML(url) ELSE PkgXML(url))

(***************************************************************************)
(* Client.Files.  Client.Download, package Files and package Download     *)
(* all call it with their own arguments.                                   *)
(***************************************************************************)
\* late records that the task stored its payload after Files had returned.
Unborn ==
    [body |-> "none", late |-> FALSE, pc |-> "unborn", pending |-> Nil, read |-> FALSE,
     req |-> <<>>, resp |-> Nil]

BatchOps == {"Files", "Download"}

\* The files arguments: every slice of pointers to File objects, nil pointers and
\* aliases included.  The objects are alike before the call, so they are numbered
\* in the order the slice first mentions them.
FirstMention(fs) ==
    \A i \in 1..Len(fs) :
        fs[i] > 1 => \E j \in 1..(i - 1) : fs[j] = fs[i] - 1
FilesArgs == {fs \in SeqsUpTo(0..NumObjs, MaxFiles) : FirstMention(fs)}

\* The call and `ch := make(chan error, len(files))`.
FilesCall ==
    /\ pc = "idle"
    /\ ~crashed
    /\ \E recv \in Recv, op \in BatchOps,
          us \in SeqsUpTo(BatchURLS, MaxUrls), fs \in FilesArgs :
        /\ pc' = "run"
        /\ ret' = [op |-> op, recv |-> recv, res |-> Result(Nil, Nil, "none", FALSE), url |-> ""]
        /\ urls' = us
        /\ files' = fs
        /\ ch' = <<>>
        /\ launched' = 0
        /\ drained' = 0
        /\ task' = [i \in 1..Len(fs) |-> Unborn]
        /\ UNCHANGED <<heap, crashed>>

\* The number of goroutines the launch loop starts, and the channel's capacity.
LaunchCount == Len(files)
ChanCap == Len(files)

\* One iteration of `for i := range files { go func(i int) {...}(i) }`.
FilesLaunch ==
    /\ pc = "run"
    /\ ~crashed
    /\ launched < LaunchCount
    /\ launched' = launched + 1
    /\ task' = [task EXCEPT ![launched + 1].pc = "start"]
    /\ UNCHANGED <<pc, ret, urls, files, heap, ch, drained, crashed>>

\* Task i: `resp, err := c.Get(urls[i])`; urls[i] panics when i is out of range,
\* and the step never happens when the GET never returns.
TaskGet(i) ==
    /\ ~crashed
    /\ task[i].pc = "start"
    /\ i <= Len(urls) => ~Hangs(urls[i])
    /\ IF i > Len(urls)
       THEN /\ crashed' = TRUE
            /\ task' = [task EXCEPT ![i].pc = "panic"]
       ELSE LET g == ClientGet(urls[i]) IN
            /\ crashed' = FALSE
            /\ task' = [task EXCEPT ![i] =
                   [body |-> IF g.resp = Nil THEN "none" ELSE Open,
                    late |-> FALSE,
                    pc |-> IF g.err # Nil THEN "send" ELSE "resp",
                    pending |-> g.err,
                    read |-> FALSE,
                    req |-> Append(@.req, urls[i]),
                    resp |-> g.resp]]
    /\ UNCHANGED <<pc, ret, urls, files, heap, ch, launched, drained>>

\* The slot task i writes: files[i].Data.
Slot(i) == files[i]

\* Task i after the GET: the status check, and on 200
\* `files[i].Data, err = ioutil.ReadAll(resp.Body)`, which panics on a nil files[i]
\* after the read (the deferred Close runs while the goroutine panics).
TaskRead(i) ==
    /\ ~crashed
    /\ task[i].pc = "resp"
    /\ LET resp == task[i].resp IN
       IF resp.StatusCode # 200
       THEN /\ task' = [task EXCEPT ![i].pc = "send", ![i].pending = err(resp, <<>>)]
            /\ UNCHANGED <<heap, crashed>>
       ELSE IF Slot(i) = 0
       THEN /\ task' = [task EXCEPT ![i].pc = "panic", ![i].body = Close(@),
                                    ![i].read = TRUE]
            /\ crashed' = TRUE
            /\ UNCHANGED heap
       ELSE LET r == ReadAll(resp) IN
            /\ heap' = [heap EXCEPT ![Slot(i)] = r.p]
            /\ task' = [task EXCEPT ![i].pc = "send",
                                    ![i].late = (pc = "returned"),
                                    ![i].read = TRUE,
                                    ![i].pending = IF r.err # Nil
                                                   THEN err(resp, <<r.err.text>>)
                                                   ELSE Nil]
            /\ UNCHANGED crashed
    /\ UNCHANGED <<pc, ret, urls, files, ch, launched, drained>>

\* Task i: `ch <- err` (blocks while the buffer is full), then the return with the
\* deferred Close.
TaskSend(i) ==
    /\ ~crashed
    /\ task[i].pc = "send"
    /\ Len(ch) < ChanCap
    /\ ch' = Append(ch, task[i].pending)
    /\ task' = [task EXCEPT ![i].pc = "done", ![i].body = Close(@)]
    /\ UNCHANGED <<pc, ret, urls, files, heap, launched, drained, crashed>>

\* Variant of the drain loop that cancels the tasks still running when it returns a
\* failure.
FilesDrainCancel ==
    /\ pc = "run"
    /\ ~crashed
    /\ launched = LaunchCount
    /\ drained < Len(files)
    /\ ch # <<>>
    /\ ch' = Tail(ch)
    /\ IF Head(ch) # Nil
       THEN /\ pc' = "returned"
            /\ ret' = [ret EXCEPT !.res.err = Head(ch)]
            /\ task' = [i \in DOMAIN task |->
                           IF task[i].pc = "done" THEN task[i]
                           ELSE [task[i] EXCEPT !.pc = "cancelled", !.body = Close(@)]]
       ELSE UNCHANGED <<pc, ret, task>>
    /\ drained' = drained + 1
    /\ UNCHANGED <<urls, files, heap, launched, crashed>>

\* Variant of the drain loop that notes the first failure and keeps receiving
\* until it has taken one signal per task.
FilesDrainAll ==
    /\ pc = "run"
    /\ ~crashed
    /\ launched = LaunchCount
    /\ drained < Len(files)
    /\ ch # <<>>
    /\ ch' = Tail(ch)
    /\ ret' = IF Head(ch) # Nil /\ ret.res.err = Nil
              THEN [ret EXCEPT !.res.err = Head(ch)]
              ELSE ret
    /\ drained' = drained + 1
    /\ UNCHANGED <<pc, urls, files, heap, launched, task, crashed>>

\* One iteration of `for range files { if err := <-ch; err != nil { return err } }`.
FilesDrain ==
    /\ pc = "run"
    /\ ~crashed
    /\ launched = LaunchCount
    /\ drained < Len(files)
    /\ ch # <<>>
    /\ ch' = Tail(ch)
    /\ IF Head(ch) # Nil
       THEN /\ pc' = "returned"
            /\ ret' = [ret EXCEPT !.res.err = Head(ch)]
       ELSE UNCHANGED <<pc, ret>>
    /\ drained' = drained + 1
    /\ UNCHANGED <<urls, files, heap, launched, task, crashed>>

\* Variant of the return that follows a drain loop one iteration short
\* (`for range files[1:]`).
FilesReturnEarly ==
    /\ pc = "run"
    /\ ~crashed
    /\ launched = LaunchCount
    /\ drained >= Len(files) - 1
    /\ pc' = "returned"
    /\ UNCHANGED <<ret, urls, files, heap, ch, launched, drained, task, crashed>>

\* `return nil` after the drain loop.
FilesReturn ==
    /\ pc = "run"
    /\ ~crashed
    /\ launched = LaunchCount
    /\ drained = Len(files)
    /\ pc' = "returned"
    /\ UNCHANGED <<ret, urls, files, heap, ch, launched, drained, task, crashed>>

Next ==
    \/ CallGet
    \/ CallBytes
    \/ CallString
    \/ CallReader
    \/ CallJSON
    \/ CallXML
    \/ FilesCall
    \/ FilesLaunch
    \/ \E i \in DOMAIN task : TaskGet(i)
    \/ \E i \in DOMAIN task : TaskRead(i)
    \/ \E i \in DOMAIN task : TaskSend(i)
    \/ FilesDrain
    \/ FilesReturn

Spec == Init /\ [][Next]_vars

(***************************************************************************)
(* Properties.                                                             *)
(***************************************************************************)
SingleOps == {"Bytes", "String", "Reader", "JSON", "XML"}

IsBatch == ret.op \in BatchOps
Returned == IsBatch /\ pc = "returned"
Tasks == DOMAIN task

\* What the network answers for a URL.
NoResponse(url) == ~Hangs(url) /\ Transport(url).err # Nil
NonOK(url) ==
    ~Hangs(url) /\ Transport(url).err = Nil /\ Transport(url).resp.StatusCode # 200
Succeeds(url) ==
    /\ ~Hangs(url)
    /\ Transport(url).err = Nil
    /\ Transport(url).resp.StatusCode = 200
    /\ Transport(url).resp.ReadErr = Nil
IsError(e) == e.type = "*httpclient.Error"
Includes(message, part) == \E n \in 1..Len(message) : message[n] = part

\* C1: whenever Files returns success for N URLs, the result sequence has exactly
\* N entries and result[i].Data is the body served for urls[i], the bytes a
\* sequential Bytes(urls[i]) returns.
C1_PositionalResult ==
    (Returned /\ ret.res.err = Nil) =>
        /\ Len(files) = Len(urls)
        /\ \A i \in 1..Len(urls) :
              /\ files[i] # 0
              /\ heap[files[i]] = ClientBytes(urls[i]).val

\* C2: if the fetch of urls[k] fails (transport error or status other than 200)
\* and every other URL of the batch succeeds, Files returns a failure that carries
\* urls[k] as its URL; Files never returns success when a task reported a
\* failure, and the failure it returns is one a task reported.
C2_FailureSurfaced ==
    Returned =>
        /\ \A k \in 1..Len(urls) :
              ( /\ NoResponse(urls[k]) \/ NonOK(urls[k])
                /\ \A j \in (1..Len(urls)) \ {k} : Succeeds(urls[j]) )
              => /\ ret.res.err # Nil
                 /\ IsError(ret.res.err)
                 /\ ret.res.err.URL = urls[k]
        /\ (\E i \in Tasks : task[i].pc = "done" /\ task[i].pending # Nil)
              => ret.res.err # Nil
        /\ ret.res.err # Nil
              => \E i \in Tasks : task[i].pc = "done" /\ task[i].pending = ret.res.err

\* C3: when Files fails, the caller's File objects are as they were before the
\* call, at the return and ever after.
C3_NoPartialResult ==
    (Returned /\ ret.res.err # Nil) => heap = [o \in Objs |-> Nil]

\* C4 (as stated): for a URL answered with a status other than 200, every read
\* operation and every batch task fails with an Error whose StatusCode is that
\* status and whose URL is the requested URL, without reading the body.
C4_RequestedURL ==
    /\ (ret.op \in SingleOps /\ NonOK(ret.url)) =>
          /\ IsError(ret.res.err)
          /\ ret.res.err.StatusCode = Transport(ret.url).resp.StatusCode
          /\ ret.res.err.URL = ret.url
          /\ ~ret.res.read
    /\ \A i \in Tasks :
          (task[i].pc \in {"send", "done"} /\ NonOK(task[i].req[1])) =>
             /\ IsError(task[i].pending)
             /\ task[i].pending.StatusCode = Transport(task[i].req[1]).resp.StatusCode
             /\ task[i].pending.URL = task[i].req[1]
             /\ ~task[i].read

\* C4 (amended): for a URL answered with a status other than 200, every read
\* operation and every batch task fails with an Error whose StatusCode is that
\* status and whose URL is the URL of the request that obtained the response
\* (resp.Request.URL: the requested URL unless the transport followed a redirect),
\* without reading the body.
C4_StatusError ==
    /\ (ret.op \in SingleOps /\ NonOK(ret.url)) =>
          /\ IsError(ret.res.err)
          /\ ret.res.err.StatusCode = Transport(ret.url).resp.StatusCode
          /\ ret.res.err.URL = Transport(ret.url).resp.ReqURL
          /\ ~ret.res.read
    /\ \A i \in Tasks :
          (task[i].pc \in {"send", "done"} /\ NonOK(task[i].req[1])) =>
             /\ IsError(task[i].pending)
             /\ task[i].pending.StatusCode = Transport(task[i].req[1]).resp.StatusCode
             /\ task[i].pending.URL = Transport(task[i].req[1]).resp.ReqURL
             /\ ~task[i].read

\* A batch task has reported the 404 of a redirected request.
C4_Witness ==
    \E i \in Tasks :
        /\ task[i].pc = "done"
        /\ task[i].req = <<UM>>
        /\ IsError(task[i].pending)
        /\ task[i].pending.StatusCode = 404

\* C5: every response body an operation obtained is closed on every exit path of
\* Bytes, String, JSON, XML and of every batch task; Reader leaves the body open
\* only when it returns it, and closes it before returning a status error.
C5_BodyClosed ==
    /\ (ret.op \in SingleOps \ {"Reader"}) =>
          ret.res.body = IF NoResponse(ret.url) THEN "none" ELSE "closed"
    /\ (ret.op = "Reader") =>
          ret.res.body = IF NoResponse(ret.url) THEN "none"
                         ELSE IF NonOK(ret.url) THEN "closed"
                         ELSE "open"
    /\ (ret.op = "Reader" /\ ret.res.body = "open") =>
          ret.res.err = Nil /\ ret.res.val # Nil
    /\ \A i \in Tasks :
          (task[i].pc \in {"done", "panic"}) =>
             task[i].body = IF task[i].resp = Nil THEN "none" ELSE "closed"

\* A batch task has ended after a failed body read, and its body is closed.
C5_Witness ==
    \E i \in Tasks :
        /\ task[i].pc = "done"
        /\ task[i].req = <<UR>>
        /\ task[i].read
        /\ task[i].pending # Nil
        /\ task[i].body = "closed"

\* C6: Files called with an empty URL list returns success, launches no task and
\* issues no GET, whatever files argument the caller passes.
C6_EmptyBatch ==
    (IsBatch /\ urls = <<>>) =>
        /\ launched = 0
        /\ ~crashed
        /\ \A i \in Tasks : task[i].pc = "unborn" /\ task[i].req = <<>>
        /\ (pc = "returned" => ret.res.err = Nil)

\* C7 (as stated): when the GET cannot be completed, every operation and every
\* batch task fails with an Error carrying the transport error's text as
\* message, a status meaning "no response received" (0) and the requested URL.
C7_WrappedTransportError ==
    /\ (ret.op \in SingleOps \cup {"Get"} /\ NoResponse(ret.url)) =>
          /\ IsError(ret.res.err)
          /\ ret.res.err.Message = <<Transport(ret.url).err.text>>
          /\ ret.res.err.StatusCode = 0
          /\ ret.res.err.URL = ret.url
    /\ \A i \in Tasks :
          (task[i].pc \in {"send", "done"} /\ NoResponse(task[i].req[1])) =>
             /\ IsError(task[i].pending)
             /\ task[i].pending.Message = <<Transport(task[i].req[1]).err.text>>
             /\ task[i].pending.StatusCode = 0
             /\ task[i].pending.URL = task[i].req[1]

\* C7 (amended): when the GET cannot be completed, every operation and every
\* batch task fails with the transport's own error value, unchanged: it is not an
\* Error, so the package sets no message, status or URL on it; no body is opened.
C7_TransportErrorUnwrapped ==
    /\ (ret.op \in SingleOps \cup {"Get"} /\ NoResponse(ret.url)) =>
          /\ ret.res.err = Transport(ret.url).err
          /\ ~IsError(ret.res.err)
          /\ ret.res.body = "none"
    /\ \A i \in Tasks :
          (task[i].pc \in {"send", "done"} /\ NoResponse(task[i].req[1])) =>
             /\ task[i].pending = Transport(task[i].req[1]).err
             /\ ~IsError(task[i].pending)
             /\ task[i].body = "none"
    /\ (Returned /\ ret.res.err # Nil /\ ~IsError(ret.res.err)) =>
          \E i \in Tasks : /\ task[i].req # <<>>
                           /\ NoResponse(task[i].req[1])
                           /\ ret.res.err = Transport(task[i].req[1]).err

\* Files has returned the transport error of one of its tasks.
C7_Witness ==
    /\ Returned
    /\ ret.res.err = TransportErr("dial tcp: no such host")
    /\ \E i \in Tasks : task[i].pc = "done" /\ task[i].req = <<UD>>

\* A 200 response whose body is not a JSON text: no JSON at all, or one cut short.
MalformedJSON(url) ==
    /\ Succeeds(url)
    /\ Transport(url).resp.Body \in {"<a>1</a>", "{\"a\":"}

\* C8 (as stated): for a URL answering 200 with a malformed JSON body, JSON fails
\* with an Error whose message includes the URL and the status code received,
\* and whose StatusCode and URL are those of the response.
C8_MessageHasStatus ==
    (ret.op = "JSON" /\ MalformedJSON(ret.url)) =>
        /\ IsError(ret.res.err)
        /\ Includes(ret.res.err.Message, ret.url)
        /\ Includes(ret.res.err.Message, ToString(Transport(ret.url).resp.StatusCode))
        /\ ret.res.err.StatusCode = Transport(ret.url).resp.StatusCode
        /\ ret.res.err.URL = Transport(ret.url).resp.ReqURL

\* C8 (amended): for a URL answering 200 with a body on which the JSON decoder
\* reports a syntax error, JSON fails with an Error whose message includes the
\* URL but not the status code, and whose StatusCode and URL are those of the
\* response; a JSON text cut short is not a syntax error for the decoder and its
\* error (unexpected EOF) is returned as it is.
C8_SyntaxErrorWrapped ==
    /\ (ret.op = "JSON" /\ Succeeds(ret.url)
        /\ JSONDecode(Transport(ret.url).resp).err.type = "*json.SyntaxError") =>
          /\ IsError(ret.res.err)
          /\ Includes(ret.res.err.Message, ret.url)
          /\ ~Includes(ret.res.err.Message,
                       ToString(Transport(ret.url).resp.StatusCode))
          /\ ret.res.err.StatusCode = Transport(ret.url).resp.StatusCode
          /\ ret.res.err.URL = Transport(ret.url).resp.ReqURL
    /\ (ret.op = "JSON" /\ Succeeds(ret.url)
        /\ JSONDecode(Transport(ret.url).resp).err.type = "io.ErrUnexpectedEOF") =>
          ret.res.err = JSONDecode(Transport(ret.url).resp).err

\* JSON has been called on a 200 response holding XML and has failed.
C8_Witness ==
    /\ ret.op = "JSON"
    /\ ret.url = UB
    /\ IsError(ret.res.err)
    /\ ret.res.err.StatusCode = 200

\* The Client method of a name.
ClientOp(op, url) ==
    CASE op = "Get" -> GetResult(ClientGet(url))
      [] op = "Bytes" -> ClientBytes(url)
      [] op = "String" -> ClientString(url)
      [] op = "Reader" -> ClientReader(url)
      [] op = "JSON" -> ClientJSON(url)
      [] op = "XML" -> ClientXML(url)

\* C9: every package-level function produces exactly the outcome of the
\* same-named method of the default client; package-level XML decodes XML.
C9_PackageAsClient ==
    (ret.recv = "package" /\ ret.op \in SingleOps \cup {"Get"}) =>
        ret.res = ClientOp(ret.op, ret.url)

\* C10: Files starts exactly one task per input URL, and task i issues exactly
\* one GET, for urls[i], whatever files argument the caller passed.
C10_OneTaskPerURL ==
    Returned =>
        /\ launched = Len(urls)
        /\ Len(task) = Len(urls)
        /\ \A i \in 1..Len(urls) : task[i].pc = "done" => task[i].req = <<urls[i]>>

\* Signals sent, buffered and received so far, failures and nil apart.
SentFailures == Cardinality({i \in Tasks : task[i].pc = "done" /\ task[i].pending # Nil})
SentNil == Cardinality({i \in Tasks : task[i].pc = "done" /\ task[i].pending = Nil})
BufferedFailures == Cardinality({n \in 1..Len(ch) : ch[n] # Nil})
BufferedNil == Cardinality({n \in 1..Len(ch) : ch[n] = Nil})
ReceivedFailures == SentFailures - BufferedFailures
ReceivedNil == SentNil - BufferedNil

\* C11 (as stated), for a batch with one File per URL: when Files returns, the
\* caller has received exactly N = len(urls) completion signals, also when a
\* failure was received before the N-th signal.
C11_ReceivesAllSignals ==
    (Returned /\ Len(files) = Len(urls)) => drained = Len(urls)

\* C11 (amended): the caller receives one signal per iteration of the drain loop
\* and stops at the first failure.  A call that returns success has received
\* exactly one signal from every task it started, all nil; a call that returns a
\* failure has received k signals, k at most the number of tasks started, of which
\* the k-th is the only failure, the one it returns; it receives nothing after
\* returning.
C11_DrainStopsAtFailure ==
    IsBatch =>
        /\ drained = ReceivedNil + ReceivedFailures
        /\ drained <= Len(task)
        /\ ReceivedFailures <= 1
        /\ ReceivedFailures = 1 <=> (pc = "returned" /\ ret.res.err # Nil)
        /\ (pc = "returned" /\ ret.res.err = Nil) => (drained = Len(task) /\ ch = <<>>)

\* Files has returned a failure before receiving the signal of every task, in a
\* batch with one File per URL, and a signal it will never receive is buffered.
C11_Witness ==
    /\ Returned
    /\ ret.res.err # Nil
    /\ Len(files) = Len(urls)
    /\ drained < Len(urls)
    /\ ch # <<>>

\* Task i has been started, has not ended, and is not waiting for a GET that
\* never returns.
Running(i) ==
    /\ task[i].pc \notin {"unborn", "done"}
    /\ ~(task[i].pc = "start" /\ i <= Len(urls) /\ Hangs(urls[i]))

\* C12: the completion channel's capacity is the number of tasks launched and each
\* task sends at most once, so no send blocks; hence every launched task whose GET
\* and body read return runs to its end, closing its body, also after Files has
\* returned a failure: a task that has not ended can always take its next step.
C12_TasksRunToEnd ==
    IsBatch =>
        /\ launched <= ChanCap
        /\ (pc = "returned" => launched = ChanCap)
        /\ drained + Len(ch) = Cardinality({i \in Tasks : task[i].pc = "done"})
        /\ \A i \in Tasks : task[i].pc = "send" => Len(ch) < ChanCap
        /\ \A i \in Tasks :
              Running(i) => ENABLED (TaskGet(i) \/ TaskRead(i) \/ TaskSend(i))
        /\ \A i \in Tasks : task[i].pc = "done" => task[i].body # "open"

\* The moves of a task: from the GET to the status check and the read, to the
\* send and to the end, or into a panic.
TaskMoves ==
    { <<"start", "resp">>, <<"start", "send">>, <<"start", "panic">>,
      <<"resp", "send">>, <<"resp", "panic">>, <<"send", "done">> }

\* Task i holds a 200 response it has not read yet, and a File to store it in.
AboutToStore(i) ==
    /\ task[i].pc = "resp"
    /\ task[i].resp.StatusCode = 200
    /\ Slot(i) # 0

Wrote(i) ==
    /\ task[i].read
    /\ task[i].pc \in {"send", "done"}
    /\ Slot(i) # 0

\* C14: the tasks of a batch share no mutable state but the channel.  No File is
\* written by two tasks, and the index and the URL a task reads are its own: the
\* one GET it issues is for urls[i].
C14_ExclusiveSlots ==
    IsBatch =>
        /\ \A i, j \in Tasks : (i # j /\ Wrote(i) /\ Wrote(j)) => Slot(i) # Slot(j)
        /\ \A i \in Tasks : task[i].req # <<>> => task[i].req = <<urls[i]>>

\* The files argument mentions no File twice.
DistinctFiles ==
    \A i, j \in 1..Len(files) : (i # j /\ files[i] # 0) => files[i] # files[j]

\* C14 holds of every batch whose files argument mentions no File twice.
C14_UnlessAliased == DistinctFiles => C14_ExclusiveSlots

\* The GET of every URL of the batch returns.
NoHang == \A i \in 1..Len(urls) : ~Hangs(urls[i])

\* Task i has still to send its signal.
WillSend(i) == task[i].pc \in {"start", "resp", "send"}

\* C15: if every task's GET and body read return, Files returns to its caller.
\* Every step of a batch moves the launch loop, a task or the drain loop forward,
\* so the call returns if it never gets stuck: while Files has not returned some
\* step can be taken, and a drain loop that waits on an empty channel waits for a
\* task that has still to send.
C15_FilesReturns ==
    (IsBatch /\ pc = "run" /\ NoHang) =>
        /\ ENABLED Next
        /\ (launched = LaunchCount /\ drained < Len(files) /\ ch = <<>>) =>
               \E i \in Tasks : WillSend(i)

\* C15 holds of every batch in which no task has panicked.
C15_UnlessCrashed == ~crashed => C15_FilesReturns

\* Task i waits for a GET that never returns.
Hung(i) ==
    /\ task[i].pc = "start"
    /\ i <= Len(urls)
    /\ Hangs(urls[i])

====
